---- MODULE Spec2Model ----
(***************************************************************************)
(* A model of image-webp's boolean (arithmetic) decoder                    *)
(* (src/src/vp8_arithmetic_decoder.rs) and of the WebP container facade    *)
(* (src/src/decoder.rs).                                                   *)
(*                                                                         *)
(* A u64 is kept as four 16-bit limbs, least significant first, so that    *)
(* the accumulator keeps its 64-bit width; all other integers of the       *)
(* decoder are small.                                                      *)
(***************************************************************************)
EXTENDS Integers, Sequences, FiniteSets, TLC

\* ------------------------------------------------------------------ bounds

\* Longest payload, in bytes, handed to ArithmeticDecoder::init.
MaxLen == 2

\* Number of public reads issued on one decoder.
MaxReads == 3

\* Byte values a payload is made of.
ByteVals == {0, 104, 255}

\* Probabilities passed to read_bool.
Probs == {0, 10, 250, 255}

\* Bit counts passed to read_literal and read_optional_signed_value.
Widths == {0, 3, 8}

\* ------------------------------------------------------- u64 as four limbs

Limb == 65536

Pow2(n) == IF n = 0 THEN 1 ELSE 2 ^ n

U64Zero == <<0, 0, 0, 0>>

\* value <<= 32; value |= u64::from(v)   with v = u32::from_be_bytes(chunk)
U64Refill(value, chunk) ==
    << chunk[3] * 256 + chunk[4], chunk[1] * 256 + chunk[2], value[1], value[2] >>

\* u64::from(x) << s for 0 <= s <= 63 and x < 2^15; bits shifted out are lost
U64Shl(x, s) ==
    LET q == s \div 16
        y == x * Pow2(s % 16)
        lo == y % Limb
        hi == y \div Limb
    IN  [i \in 1..4 |-> IF i = q + 1 THEN lo ELSE IF i = q + 2 THEN hi ELSE 0]

\* a >= b
U64Geq(a, b) ==
    IF a[4] # b[4] THEN a[4] > b[4]
    ELSE IF a[3] # b[3] THEN a[3] > b[3]
    ELSE IF a[2] # b[2] THEN a[2] > b[2]
    ELSE a[1] >= b[1]

\* a - b for a >= b
U64Sub(a, b) ==
    LET d1 == a[1] - b[1]
        c1 == IF d1 < 0 THEN 1 ELSE 0
        d2 == a[2] - b[2] - c1
        c2 == IF d2 < 0 THEN 1 ELSE 0
        d3 == a[3] - b[3] - c2
        c3 == IF d3 < 0 THEN 1 ELSE 0
        d4 == a[4] - b[4] - c3
    IN  << d1 + c1 * Limb, d2 + c2 * Limb, d3 + c3 * Limb, d4 % Limb >>

\* value.checked_sub(bigsplit): <<TRUE, value - bigsplit>> or <<FALSE, value>>
checked_sub(value, bigsplit) ==
    IF U64Geq(value, bigsplit) THEN <<TRUE, U64Sub(value, bigsplit)>>
    ELSE <<FALSE, value>>

\* u32::leading_zeros
RECURSIVE BitLen(_)
BitLen(x) == IF x = 0 THEN 0 ELSE 1 + BitLen(x \div 2)

leading_zeros(x) == 32 - BitLen(x)

\* u32::saturating_sub
saturating_sub(a, b) == IF a >= b THEN a - b ELSE 0

\* ------------------------------------------------------------ the decoder

\* State after ArithmeticDecoder::new and ::init
NewState == [chunk_index |-> 0, value |-> U64Zero, range |-> 255, bit_count |-> 0 - 8]

\* buf of ArithmeticDecoder::init as callers build it: the payload copied into
\* size.div_ceil(4) zeroed chunks of four bytes
PadChunks(data) ==
    LET n == (Len(data) + 3) \div 4
        At(i) == IF i <= Len(data) THEN data[i] ELSE 0
    IN  [k \in 1..n |-> << At(4 * k - 3), At(4 * k - 2), At(4 * k - 1), At(4 * k) >>]

\* self.chunks.get(chunk_index).copied().unwrap_or_default()
ChunkOrDefault(chunks, i) == IF i < Len(chunks) THEN chunks[i + 1] ELSE <<0, 0, 0, 0>>

\* BigSplit that leaves the split where it is
BigSplit_unshifted(split, bit_count) == U64Shl(split, 0)

\* u64::from(split) << bit_count: a shift count outside 0..63 panics in a build
\* with overflow checks and is masked to six bits otherwise
BigSplit(split, bit_count) == U64Shl(split, bit_count % 64)

ShiftInRange(bit_count) == bit_count >= 0 /\ bit_count <= 63

\* check that fails as soon as the last chunk has been loaded
check_at_last(chunks, st) == IF st.chunk_index >= Len(chunks) THEN "BitStreamError" ELSE "Ok"

\* ArithmeticDecoder::check
check(chunks, st) == IF st.chunk_index > Len(chunks) THEN "BitStreamError" ELSE "Ok"

\* FastRefill that leaves bit_count as it was
FastRefill_no_count(chunks, st) ==
    IF st.bit_count < 0
    THEN [chunk_index |-> st.chunk_index + 1,
          value |-> U64Refill(st.value, ChunkOrDefault(chunks, st.chunk_index)),
          range |-> st.range,
          bit_count |-> st.bit_count]
    ELSE st

\* FastRefill that refills whenever fewer than 32 bits are held
FastRefill_eager(chunks, st) ==
    IF st.bit_count < 32
    THEN [chunk_index |-> st.chunk_index + 1,
          value |-> U64Refill(st.value, ChunkOrDefault(chunks, st.chunk_index)),
          range |-> st.range,
          bit_count |-> st.bit_count + 32]
    ELSE st

\* The part of fast_read_bit, fast_read_flag and fast_read_sign that refills
FastRefill(chunks, st) ==
    IF st.bit_count < 0
    THEN [chunk_index |-> st.chunk_index + 1,
          value |-> U64Refill(st.value, ChunkOrDefault(chunks, st.chunk_index)),
          range |-> st.range,
          bit_count |-> st.bit_count + 32]
    ELSE st

\* ColdRefill without the reset of bit_count at the end of the chunks
ColdRefill_no_reset(chunks, st) ==
    IF st.bit_count < 0
    THEN IF st.chunk_index < Len(chunks)
         THEN [chunk_index |-> st.chunk_index + 1,
               value |-> U64Refill(st.value, chunks[st.chunk_index + 1]),
               range |-> st.range,
               bit_count |-> st.bit_count + 32]
         ELSE [st EXCEPT !.chunk_index = st.chunk_index + 1]
    ELSE st

\* The refill of cold_read_bit
ColdRefill(chunks, st) ==
    IF st.bit_count < 0
    THEN IF st.chunk_index < Len(chunks)
         THEN [chunk_index |-> st.chunk_index + 1,
               value |-> U64Refill(st.value, chunks[st.chunk_index + 1]),
               range |-> st.range,
               bit_count |-> st.bit_count + 32]
         ELSE [st EXCEPT !.chunk_index = st.chunk_index + 1, !.bit_count = 0]
    ELSE st

\* RenormShift counting the leading zeros of a 7-bit range
RenormShift_short(range) == saturating_sub(leading_zeros(range), 25)

\* The renormalization shift of cold_read_bit and fast_read_bit
RenormShift(range) == saturating_sub(leading_zeros(range), 24)

\* FlagShift that always shifts
FlagShift_always(range) == 1

\* The renormalization shift of fast_read_flag
FlagShift(range) == IF range = 128 THEN 0 ELSE 1

\* The result of reading one symbol: the new state, the bit, whether every
\* debug assertion and overflow check on the way held, and the state at the
\* point of the split (after the refill)
Step(st, bit, ok, mid) == [st |-> st, bit |-> bit, ok |-> ok, mid |-> mid]

\* cold_read_bit from its split on, st being the state after the refill
ColdSplit(st, probability) ==
    LET split == 1 + (((st.range - 1) * probability) \div 256)
        sub == checked_sub(st.value, BigSplit(split, st.bit_count))
        range1 == IF sub[1] THEN st.range - split ELSE split
        shift == RenormShift(range1)
        range2 == range1 * Pow2(shift)
    IN  Step([chunk_index |-> st.chunk_index,
              value |-> sub[2],
              range |-> range2,
              bit_count |-> st.bit_count - shift],
             sub[1],
             /\ ShiftInRange(st.bit_count)
             /\ range1 > 0
             /\ range2 >= 128,
             st)

cold_read_bit(chunks, st0, probability) == ColdSplit(ColdRefill(chunks, st0), probability)

\* fast_read_bit from its split on, st being the state after the refill
FastSplit(st, probability) ==
    LET split == 1 + (((st.range - 1) * probability) \div 256)
        sub == checked_sub(st.value, BigSplit(split, st.bit_count))
        range1 == IF sub[1] THEN st.range - split ELSE split
        shift == RenormShift(range1)
        range2 == range1 * Pow2(shift)
    IN  Step([chunk_index |-> st.chunk_index,
              value |-> sub[2],
              range |-> range2,
              bit_count |-> st.bit_count - shift],
             sub[1],
             /\ ShiftInRange(st.bit_count)
             /\ st.range >= 128 /\ st.range <= 255
             /\ range1 >= 1 /\ range1 <= 254
             /\ range2 >= 128 /\ range2 <= 254,
             st)

fast_read_bit(chunks, st0, probability) == FastSplit(FastRefill(chunks, st0), probability)

\* fast_read_flag from its split on, st being the state after the refill
FlagSplit(st) ==
    LET half_range == st.range \div 2
        split == st.range - half_range
        sub == checked_sub(st.value, BigSplit(split, st.bit_count))
        range1 == IF sub[1] THEN half_range ELSE split
        shift == FlagShift(range1)
        range2 == range1 * Pow2(shift)
    IN  Step([chunk_index |-> st.chunk_index,
              value |-> sub[2],
              range |-> range2,
              bit_count |-> st.bit_count - shift],
             sub[1],
             /\ ShiftInRange(st.bit_count)
             /\ st.range >= 128 /\ st.range <= 255
             /\ range1 >= 64 /\ range1 <= 128
             /\ range2 >= 128 /\ range2 <= 254,
             st)

fast_read_flag(chunks, st0) == FlagSplit(FastRefill(chunks, st0))

\* SignSplit that leaves range and bit_count unshifted
SignSplit_unshifted(st) ==
    LET half_range == st.range \div 2
        split == st.range - half_range
        sub == checked_sub(st.value, BigSplit(split, st.bit_count))
        range1 == IF sub[1] THEN half_range ELSE split
    IN  Step([chunk_index |-> st.chunk_index,
              value |-> sub[2],
              range |-> range1,
              bit_count |-> st.bit_count],
             sub[1],
             /\ ShiftInRange(st.bit_count)
             /\ st.range >= 128 /\ st.range <= 254,
             st)

\* fast_read_sign from its split on, st being the state after the refill
SignSplit(st) ==
    LET half_range == st.range \div 2
        split == st.range - half_range
        sub == checked_sub(st.value, BigSplit(split, st.bit_count))
        range1 == IF sub[1] THEN half_range ELSE split
        range2 == range1 * 2
    IN  Step([chunk_index |-> st.chunk_index,
              value |-> sub[2],
              range |-> range2,
              bit_count |-> st.bit_count - 1],
             sub[1],
             /\ ShiftInRange(st.bit_count)
             /\ st.range >= 128 /\ st.range <= 254
             /\ range1 >= 64 /\ range1 <= 127
             /\ range2 >= 128 /\ range2 <= 254,
             st)

fast_read_sign(chunks, st0) == SignSplit(FastRefill(chunks, st0))

cold_read_bool(chunks, st, probability) == cold_read_bit(chunks, st, probability)

cold_read_flag(chunks, st) == cold_read_bit(chunks, st, 128)


\* The result of one primitive: the state it leaves, the value it returns,
\* whether every assertion held, and the symbols it read, in order
Res(st, val, ok, steps) == [st |-> st, val |-> val, ok |-> ok, steps |-> steps]

OneStep(s) == Res(s.st, s.bit, s.ok, <<s>>)

BitVal(b) == IF b THEN 1 ELSE 0

\* PushBit that does not shift
PushBit_unshifted(v, b) == (v + BitVal(b)) % 256

\* v = (v << 1) + u8::from(b) on a u8
PushBit(v, b) == ((v * 2) % 256) + BitVal(b)

\* One turn of the loop of read_literal: symbol s is pushed onto the value of r
LiteralStep(r, s) == Res(s.st, PushBit(r.val, s.bit), r.ok /\ s.ok, Append(r.steps, s))

RECURSIVE ColdLiteralLoop(_, _, _)
ColdLiteralLoop(chunks, r, n) ==
    IF n = 0 THEN r
    ELSE ColdLiteralLoop(chunks, LiteralStep(r, cold_read_flag(chunks, r.st)), n - 1)

cold_read_literal(chunks, st, n) == ColdLiteralLoop(chunks, Res(st, 0, TRUE, <<>>), n)

\* SignedValue that drops the sign
SignedValue_unsigned(flag, magnitude, sign) ==
    Res(sign.st,
        magnitude.val,
        flag.ok /\ magnitude.ok /\ sign.ok,
        <<flag>> \o magnitude.steps \o <<sign>>)

\* The value of read_optional_signed_value: symbols flag and sign around magnitude
SignedValue(flag, magnitude, sign) ==
    Res(sign.st,
        IF sign.bit THEN 0 - magnitude.val ELSE magnitude.val,
        flag.ok /\ magnitude.ok /\ sign.ok,
        <<flag>> \o magnitude.steps \o <<sign>>)

\* cold_read_optional_signed_value once its magnitude is read
ColdSign(chunks, flag, magnitude) ==
    SignedValue(flag, magnitude, cold_read_flag(chunks, magnitude.st))

\* cold_read_optional_signed_value once its flag is read
ColdMagnitude(chunks, flag, n) ==
    IF ~flag.bit THEN Res(flag.st, 0, flag.ok, <<flag>>)
    ELSE ColdSign(chunks, flag, cold_read_literal(chunks, flag.st, n))

cold_read_optional_signed_value(chunks, st, n) ==
    ColdMagnitude(chunks, cold_read_flag(chunks, st), n)

\* TreeNode::value_from_branch: a fixed function of the child byte
value_from_branch(t) == t % 128

\* A TreeNode
Node(prob, left, right, index) ==
    [prob |-> prob, left |-> left, right |-> right, index |-> index]

\* One turn of the loop of read_with_tree: symbol s read at a node is added to r
TreeStep(r, s) == Res(s.st, 0, r.ok /\ s.ok, Append(r.steps, s))

\* Branch with the children swapped
Branch_swapped(node, b) == IF b THEN node.left ELSE node.right

\* The child that bit b selects at node
Branch(node, b) == IF b THEN node.right ELSE node.left

RECURSIVE ColdTreeLoop(_, _, _, _)

\* cold_read_with_tree once the symbol at node is read: r holds it, t is the child
ColdTreeNext(chunks, r, tree, t) ==
    IF t < Len(tree) THEN ColdTreeLoop(chunks, r, tree, t)
    ELSE Res(r.st, value_from_branch(t), r.ok, r.steps)

\* cold_read_with_tree at tree[index], s being the symbol read there
ColdTreeAt(chunks, r, tree, index, s) ==
    ColdTreeNext(chunks, TreeStep(r, s), tree, Branch(tree[index + 1], s.bit))

ColdTreeLoop(chunks, r, tree, index) ==
    IF index >= Len(tree) THEN Res(r.st, 0, FALSE, r.steps)
    ELSE ColdTreeAt(chunks, r, tree, index,
                    cold_read_bit(chunks, r.st, tree[index + 1].prob))

cold_read_with_tree(chunks, st, tree, start) ==
    ColdTreeLoop(chunks, Res(st, 0, TRUE, <<>>), tree, start)

RECURSIVE FastLiteralLoop(_, _, _)
FastLiteralLoop(chunks, r, n) ==
    IF n = 0 THEN r
    ELSE FastLiteralLoop(chunks, LiteralStep(r, fast_read_flag(chunks, r.st)), n - 1)

fast_read_literal(chunks, st, n) == FastLiteralLoop(chunks, Res(st, 0, TRUE, <<>>), n)

RECURSIVE FastTreeLoop(_, _, _, _)

\* fast_read_with_tree once the symbol at a node is read: r holds it, i is the child
FastTreeNext(chunks, r, tree, i) ==
    IF i < Len(tree) THEN FastTreeLoop(chunks, r, tree, tree[i + 1])
    ELSE Res(r.st, value_from_branch(i), r.ok, r.steps)

\* fast_read_with_tree at node, s being the symbol read there
FastTreeAt(chunks, r, tree, node, s) ==
    FastTreeNext(chunks, TreeStep(r, s), tree, Branch(node, s.bit))

FastTreeLoop(chunks, r, tree, node) ==
    FastTreeAt(chunks, r, tree, node, fast_read_bit(chunks, r.st, node.prob))

fast_read_with_tree(chunks, st, tree, node) ==
    FastTreeLoop(chunks, Res(st, 0, TRUE, <<>>), tree, node)

\* commit_if_valid without its test
commit_if_valid_always(chunks, uncommitted_state) == TRUE

\* FastDecoder::commit_if_valid: whether uncommitted_state is stored
commit_if_valid(chunks, uncommitted_state) ==
    uncommitted_state.chunk_index <= Len(chunks)

\* FastDecoder::read_optional_signed_value before its commit_if_valid
\* FastDecoder::read_optional_signed_value once its magnitude is read
FastSign(chunks, flag, magnitude) ==
    SignedValue(flag, magnitude, fast_read_flag(chunks, magnitude.st))

\* FastDecoder::read_optional_signed_value once its flag is read
FastMagnitude(chunks, flag, n) ==
    IF ~flag.bit THEN Res(flag.st, 0, flag.ok, <<flag>>)
    ELSE FastSign(chunks, flag, fast_read_literal(chunks, flag.st, n))

Fast_read_optional_signed_value(chunks, st, n) ==
    FastMagnitude(chunks, fast_read_flag(chunks, st), n)

\* A public primitive: the fast attempt, committed if valid, else the slow
\* path run from the saved state.  A panic of the discarded fast attempt
\* still ends the call.
Public(chunks, fast, cold) ==
    IF commit_if_valid(chunks, fast.st)
    THEN [st |-> fast.st, val |-> fast.val, ok |-> fast.ok, steps |-> fast.steps,
          path |-> "fast", tried |-> fast.steps]
    ELSE [st |-> cold.st, val |-> cold.val, ok |-> fast.ok /\ cold.ok, steps |-> cold.steps,
          path |-> "cold", tried |-> fast.steps]

read_bool(chunks, st, probability) ==
    Public(chunks, OneStep(fast_read_bit(chunks, st, probability)),
           OneStep(cold_read_bool(chunks, st, probability)))

read_flag(chunks, st) ==
    Public(chunks, OneStep(fast_read_flag(chunks, st)), OneStep(cold_read_flag(chunks, st)))

read_sign(chunks, st) ==
    Public(chunks, OneStep(fast_read_sign(chunks, st)), OneStep(cold_read_flag(chunks, st)))

read_literal(chunks, st, n) ==
    Public(chunks, fast_read_literal(chunks, st, n), cold_read_literal(chunks, st, n))

read_optional_signed_value(chunks, st, n) ==
    Public(chunks, Fast_read_optional_signed_value(chunks, st, n),
           cold_read_optional_signed_value(chunks, st, n))

read_with_tree_with_first_node(chunks, st, tree, first_node) ==
    Public(chunks, fast_read_with_tree(chunks, st, tree, first_node),
           cold_read_with_tree(chunks, st, tree, first_node.index))

read_with_tree(chunks, st, tree) ==
    read_with_tree_with_first_node(chunks, st, tree, tree[1])


\* ------------------------------------------------- the container facade

\* The build: the width of usize and whether integer overflow is checked
Builds ==
    { [bits |-> 64, overflow_checks |-> TRUE],
      [bits |-> 32, overflow_checks |-> TRUE],
      [bits |-> 32, overflow_checks |-> FALSE] }

Ok(v) == [kind |-> "Ok", v |-> v]

\* Result::Err(Error::name), with the bytes the error carries
Err(name, bytes) == [kind |-> "Err", err |-> name, bytes |-> bytes]

\* ArithmeticDecoder::check(value): Err(BitStreamError) or Ok(value)
check_value(chunks, st, value) ==
    IF check(chunks, st) = "Ok" THEN Ok(value) ELSE Err("BitStreamError", <<>>)

\* A panic: the call does not return
Panic == [kind |-> "Panic"]

\* &data[a..b]
Slice(data, a, b) == SubSeq(data, a + 1, b)

\* A usize as eight bytes, least significant first (on a 32-bit build the
\* upper four are 0); n is a value below 2^31
usize(n) ==
    << n % 256, (n \div 256) % 256, (n \div 65536) % 256, (n \div 16777216) % 256,
       0, 0, 0, 0 >>

\* The value of a word below 2^31
ToInt(w) == w[1] + 256 * w[2] + 65536 * w[3] + 16777216 * w[4]

\* The sum of a[i] * b[j] over the bytes with (i - 1) + (j - 1) = k - 1, from byte i of a on
RECURSIVE Column(_, _, _, _)
Column(a, b, k, i) ==
    IF i > Len(a) THEN 0
    ELSE (IF k + 1 - i >= 1 /\ k + 1 - i <= Len(b) THEN a[i] * b[k + 1 - i] ELSE 0)
             + Column(a, b, k, i + 1)

RECURSIVE Carried(_, _, _, _)

\* Byte k of the product and the bytes above it, for the sum at byte k
CarriedAt(a, b, k, sum) == <<sum % 256>> \o Carried(a, b, k + 1, sum \div 256)

\* The bytes of the product from byte k on, given the carry into byte k
Carried(a, b, k, carry) ==
    IF k > Len(a) + Len(b) THEN <<>>
    ELSE CarriedAt(a, b, k, Column(a, b, k, 1) + carry)

\* The product of two words, in full: sixteen bytes
Product(a, b) == Carried(a, b, 1, 0)

\* The bytes taken most significant first
u16_from_be_bytes(b) == b[2] + 256 * b[1]

\* u16::from_le_bytes
u16_from_le_bytes(b) == b[1] + 256 * b[2]

\* u32::from_le_bytes(..) as usize, as <<high 16 bits, low 16 bits>>
u32_from_le_bytes(b) == << b[3] + 256 * b[4], b[1] + 256 * b[2] >>

\* 20 + chunk_size in usize, as <<high part, low 16 bits>>: on a 32-bit build
\* the sum can overflow, which panics with overflow checks and wraps without
RangeEnd(chunk_size, build) ==
    LET sum == chunk_size[2] + 20
        hi == chunk_size[1] + (sum \div Limb)
        overflow == build.bits = 32 /\ hi >= Limb
    IN  [overflow |-> overflow, hi |-> IF overflow THEN hi % Limb ELSE hi, lo |-> sum % Limb]

\* Whether data[20..end] is inside data: 20 <= end <= data.len()
RangeInside(data, end) ==
    /\ end.hi = 0
    /\ end.lo >= 20
    /\ end.lo <= Len(data)

RIFF == <<82, 73, 70, 70>>
WEBP == <<87, 69, 66, 80>>
VP8 == <<86, 80, 56, 32>>
VP8L == <<86, 80, 56, 76>>
VP8X == <<86, 80, 56, 88>>
Vp8Magic == <<157, 1, 42>>

\* WebPDecoder::read_vp8_chunk; chunk is &data[20..], so chunk[i] is data[20 + i]
read_vp8_chunk(data, range) ==
    IF Len(data) < 21 THEN Panic
    ELSE IF data[21] % 2 # 0 THEN Err("NonKeyframe", <<>>)
    ELSE IF Len(data) < 26 THEN Panic
    ELSE LET tag == Slice(data, 23, 26)
         IN  IF tag # Vp8Magic THEN Err("Vp8MagicInvalid", tag)
             ELSE IF Len(data) < 28 THEN Panic
             ELSE LET width == usize(u16_from_le_bytes(Slice(data, 26, 28)) % 16384)
                  IN  IF Len(data) < 30 THEN Panic
                      ELSE LET height == usize(u16_from_le_bytes(Slice(data, 28, 30)) % 16384)
                           IN  IF width = usize(0) \/ height = usize(0) THEN Err("InvalidImageSize", <<>>)
                               ELSE Ok([width |-> width, height |-> height, range |-> range])

\* WebPDecoder::read_chunks
read_chunks(data, build) ==
    IF Len(data) < 4 THEN Panic
    ELSE IF Slice(data, 0, 4) # RIFF THEN Err("InvalidSignature", <<>>)
    ELSE IF Len(data) < 12 THEN Panic
    ELSE IF Slice(data, 8, 12) # WEBP THEN Err("InvalidSignature", <<>>)
    ELSE IF Len(data) < 16 THEN Panic
    ELSE LET chunk_fcc == Slice(data, 12, 16)
         IN  IF Len(data) < 20 THEN Panic
             ELSE LET chunk_size == u32_from_le_bytes(Slice(data, 16, 20))
                      range == RangeEnd(chunk_size, build)
                  IN  IF range.overflow /\ build.overflow_checks THEN Panic
                      ELSE IF chunk_fcc = VP8 THEN read_vp8_chunk(data, range)
                      ELSE IF chunk_fcc = VP8L THEN Err("LosslessUnsupported", <<>>)
                      ELSE IF chunk_fcc = VP8X THEN Err("ExtendedUnsupported", <<>>)
                      ELSE Err("ChunkHeaderInvalid", chunk_fcc)

\* new that keeps every byte from the frame tag to the end of the buffer
new_to_end(data, build) ==
    LET r == read_chunks(data, build)
    IN  IF r.kind # "Ok" THEN r
        ELSE IF ~RangeInside(data, r.v.range) THEN Panic
        ELSE Ok([width |-> r.v.width, height |-> r.v.height,
                 data |-> Slice(data, 20, Len(data))])

\* WebPDecoder::new
new(data, build) ==
    LET r == read_chunks(data, build)
    IN  IF r.kind # "Ok" THEN r
        ELSE IF ~RangeInside(data, r.v.range) THEN Panic
        ELSE Ok([width |-> r.v.width, height |-> r.v.height,
                 data |-> Slice(data, 20, r.v.range.lo)])

\* WebPDecoder::dimensions
dimensions(self) == <<self.width, self.height>>

Some(v) == [some |-> TRUE, v |-> v]

None == [some |-> FALSE, v |-> usize(0)]

\* The product has no byte set above the native word
FitsWord(product, build) ==
    \A i \in (build.bits \div 8 + 1)..Len(product) : product[i] = 0

\* The word of the product, unless it overflowed
Checked(product, build) ==
    IF FitsWord(product, build) THEN Some(SubSeq(product, 1, 8)) ELSE None

\* usize::checked_mul: None when the product overflows the native word
checked_mul(a, b, build) == Checked(Product(a, b), build)

\* .checked_mul(self.height)?.checked_mul(bytes_per_pixel)
TimesPixel(wh, build) ==
    IF ~wh.some THEN None ELSE checked_mul(wh.v, usize(3), build)

\* The low word of a product
Wrapped(product, build) ==
    IF build.bits = 64 THEN SubSeq(product, 1, 8)
    ELSE SubSeq(product, 1, 4) \o <<0, 0, 0, 0>>

\* The size with a first product that wraps
output_buffer_size_wrapping(self, build) ==
    TimesPixel(Some(Wrapped(Product(self.width, self.height), build)), build)

\* WebPDecoder::output_buffer_size
output_buffer_size(self, build) ==
    TimesPixel(checked_mul(self.width, self.height, build), build)

\* Vp8Decoder::new().decode_frame(&self.data): the frame header is parsed
\* with a fresh boolean decoder over the bytes that follow the 10-byte frame
\* tag; the colour space must be 0; the decoded frame is the sample read
\* next; check() closes the unit.  A function of the payload alone.
FrameOf(cs, color_space, clamping, sample) ==
    IF color_space.val # 0 THEN Err("ColorSpaceInvalid", <<color_space.val>>)
    ELSE IF check(cs, sample.st) # "Ok" THEN Err("BitStreamError", <<>>)
    ELSE Ok([clamping |-> clamping.val, sample |-> sample.val])

FrameSample(cs, color_space, clamping) ==
    FrameOf(cs, color_space, clamping, read_literal(cs, clamping.st, 8))

FrameClamping(cs, color_space) ==
    FrameSample(cs, color_space, read_literal(cs, color_space.st, 1))

FrameHeader(cs) == FrameClamping(cs, read_literal(cs, NewState, 1))

decode_frame(data) ==
    IF Len(data) < 10 THEN Err("NotEnoughInitData", <<>>)
    ELSE FrameHeader(PadChunks(Slice(data, 10, Len(data))))

\* The caller's buffer: its length and what it holds
Buffer(len, content) == [len |-> len, content |-> content]

\* What a buffer holds before read_image is called
Untouched == [clamping |-> 0 - 1, sample |-> 0 - 1]

\* Frame::fill_rgb: W * H * 3 bytes of buf are written from the frame
fill_rgb(frame, buf) == Buffer(buf.len, frame.v)

\* read_image that hands its payload over to the frame decoder
read_image_consuming(self, buf, build) ==
    IF Some(usize(buf.len)) # output_buffer_size(self, build)
    THEN [result |-> Err("ImageTooLarge", <<>>), self |-> self, buf |-> buf, decoded |-> FALSE]
    ELSE LET frame == decode_frame(self.data)
         IN  IF frame.kind # "Ok"
             THEN [result |-> frame, self |-> [self EXCEPT !.data = <<>>], buf |-> buf,
                   decoded |-> TRUE]
             ELSE [result |-> Ok(<<>>), self |-> [self EXCEPT !.data = <<>>],
                   buf |-> fill_rgb(frame, buf), decoded |-> TRUE]

\* read_image that accepts any buffer that is large enough
read_image_at_least(self, buf, build) ==
    LET size == output_buffer_size(self, build)
    IN  IF ~size.some \/ buf.len < ToInt(size.v)
        THEN [result |-> Err("ImageTooLarge", <<>>), self |-> self, buf |-> buf,
              decoded |-> FALSE]
        ELSE LET frame == decode_frame(self.data)
             IN  IF frame.kind # "Ok"
                 THEN [result |-> frame, self |-> self, buf |-> buf, decoded |-> TRUE]
                 ELSE [result |-> Ok(<<>>), self |-> self, buf |-> fill_rgb(frame, buf),
                       decoded |-> TRUE]

\* read_image that keeps the macroblock-aligned size of the decoded frame
read_image_aligned(self, buf, build) ==
    IF Some(usize(buf.len)) # output_buffer_size(self, build)
    THEN [result |-> Err("ImageTooLarge", <<>>), self |-> self, buf |-> buf, decoded |-> FALSE]
    ELSE LET frame == decode_frame(self.data)
             aligned == [self EXCEPT !.width = usize(((ToInt(self.width) + 15) \div 16) * 16),
                                     !.height = usize(((ToInt(self.height) + 15) \div 16) * 16)]
         IN  IF frame.kind # "Ok"
             THEN [result |-> frame, self |-> aligned, buf |-> buf, decoded |-> TRUE]
             ELSE [result |-> Ok(<<>>), self |-> aligned, buf |-> fill_rgb(frame, buf),
                   decoded |-> TRUE]

\* read_image that clears the buffer before it decodes
read_image_clearing(self, buf, build) ==
    IF Some(usize(buf.len)) # output_buffer_size(self, build)
    THEN [result |-> Err("ImageTooLarge", <<>>), self |-> self, buf |-> buf, decoded |-> FALSE]
    ELSE LET frame == decode_frame(self.data)
         IN  IF frame.kind # "Ok"
             THEN [result |-> frame, self |-> self,
                   buf |-> Buffer(buf.len, [clamping |-> 0, sample |-> 0]), decoded |-> TRUE]
             ELSE [result |-> Ok(<<>>), self |-> self, buf |-> fill_rgb(frame, buf),
                   decoded |-> TRUE]

\* WebPDecoder::read_image: the result, the decoder and the buffer it leaves,
\* and whether a Vp8Decoder was created and decode_frame called
read_image(self, buf, build) ==
    IF Some(usize(buf.len)) # output_buffer_size(self, build)
    THEN [result |-> Err("ImageTooLarge", <<>>), self |-> self, buf |-> buf, decoded |-> FALSE]
    ELSE LET frame == decode_frame(self.data)
         IN  IF frame.kind # "Ok"
             THEN [result |-> frame, self |-> self, buf |-> buf, decoded |-> TRUE]
             ELSE [result |-> Ok(<<>>), self |-> self, buf |-> fill_rgb(frame, buf),
                   decoded |-> TRUE]

\* ------------------------------------------------------ the state machine

VARIABLES
    chunks,      \* ArithmeticDecoder.chunks
    state,       \* ArithmeticDecoder.state
    started,     \* a symbol has been read
    aborted,     \* a read has panicked
    nreads,      \* public reads issued so far
    lastPath,    \* "none", or the path that served the last read: "fast", "cold"
    lastVal,     \* the value the last read returned
    coldRef,     \* what the slow path alone returns and leaves for the last read
    symRange,    \* the symbols of the last read, fast attempt and serving path: how many,
                 \* and the least and largest range they left
    overValue,   \* symbols of the last read that left bit_count >= 0 and
                 \* value >= range << bit_count
    badShift,    \* symbols of the last read whose split was shifted by a bit_count
                 \* outside 0..63
    lastOp,      \* the last read: its name and its argument
    lastSyms,    \* how many symbols the last read consumed on the path that served
                 \* it, and how many its fast attempt consumed
    seqRef,      \* what the single-symbol public reads that the last read stands
                 \* for return and leave from the same state, and how many they are
    payloadLen,  \* the length of the payload in bytes, as far as it is known
    lastNeed,    \* how many bytes of the bit stream, from its start, the symbols of
                 \* the last read needed
    chunksT,     \* the chunks of a second decoder, built from a truncation of the payload
    stateT,      \* the state of the second decoder, which is issued the same reads
    same,        \* every read so far returned the same value on both decoders
    readAfterErr,\* a read was issued when check() already returned BitStreamError
    overrun,     \* a symbol that was served refilled when no chunk remained
    refills,     \* symbols of the last read whose refill shifted set bits out of
                 \* value, and symbols that saw a bit_count outside -8..=31
    build,       \* the build of the program
    input,       \* the bytes handed to WebPDecoder::new
    created,     \* the outcome of WebPDecoder::new, once called
    dec,         \* the WebPDecoder: width, height, data
    afterNew,    \* what the decoder held and reported right after new
    calls,       \* read_image calls so far
    last,        \* the last read_image call: buffer length, result, buffer left
    first,       \* the first read_image call on a buffer of the right length
    reported     \* what output_buffer_size returned when asked

adVars ==
    <<chunks, state, started, aborted, nreads, lastPath, lastVal, coldRef, symRange,
      overValue, badShift, lastOp, lastSyms, seqRef, payloadLen, lastNeed,
      chunksT, stateT, same, readAfterErr, overrun, refills>>

webpVars == <<build, input, created, dec, afterNew, calls, last, first, reported>>

vars == <<adVars, webpVars>>

\* Payloads handed to init
\* Payloads of two chunks, the second one reached within a few reads
LongPayloads == { <<b, 104, 0, 255, 104>> : b \in {104, 255} }

Payloads == UNION {[1..n -> ByteVals] : n \in 0..MaxLen} \cup LongPayloads

\* Trees walked by read_with_tree: each node carries its position as index, a
\* child below the length of the tree is a node, any other child is a leaf
Trees ==
    { << Node(250, 128, 129, 0) >>,
      << Node(128, 1, 130, 0), Node(10, 129, 131, 1) >> }

\* Number of read_image calls made on one decoder.
MaxCalls == 2

NotCalled == [kind |-> "NotCalled"]

NoDecoder == [width |-> usize(0), height |-> usize(0), data |-> <<>>]

NoCall == [called |-> FALSE]

\* No input has been handed to WebPDecoder::new
WebPIdle ==
    /\ build = [bits |-> 64, overflow_checks |-> TRUE]
    /\ input = <<>>
    /\ created = NotCalled
    /\ dec = NoDecoder
    /\ afterNew = NoCall
    /\ calls = 0
    /\ last = NoCall
    /\ first = NoCall
    /\ reported = NoCall

NoSymbols == [n |-> 0, lo |-> 0, hi |-> 0]

\* The ranges left by the symbols of read r, on the fast attempt and on the
\* path that served it
RangesOf(r) ==
    {r.steps[i].st.range : i \in 1..Len(r.steps)}
        \cup {r.tried[i].st.range : i \in 1..Len(r.tried)}

SymRange(r) ==
    LET rs == RangesOf(r)
    IN  IF rs = {} THEN NoSymbols
        ELSE [n |-> Len(r.steps) + Len(r.tried),
              lo |-> CHOOSE x \in rs : \A y \in rs : x <= y,
              hi |-> CHOOSE x \in rs : \A y \in rs : x >= y]

\* value >= range << bit_count, for bit_count >= 0
ValueOver(st) ==
    st.bit_count >= 0 /\ U64Geq(st.value, U64Shl(st.range, st.bit_count))

\* The bits of the stream, from its start, that the split of a symbol compares:
\* those loaded so far but for the low bit_count bits of value
BitsNeeded(mid) == 32 * mid.chunk_index - mid.bit_count

\* The bytes of the stream that the symbols of a fast attempt needed
BytesNeeded(steps) ==
    IF steps = <<>> THEN 0
    ELSE LET bits == {BitsNeeded(steps[i].mid) : i \in 1..Len(steps)}
         IN  ((CHOOSE x \in bits : \A y \in bits : x >= y) + 7) \div 8

\* The state symbol i of steps started from, the first one starting from pre
PreOf(pre, steps, i) == IF i = 1 THEN pre ELSE steps[i - 1].st

\* A symbol of steps refilled (bit_count < 0) when none of the n chunks remained
Overran(n, pre, steps) ==
    \E i \in 1..Len(steps) :
        /\ PreOf(pre, steps, i).bit_count < 0
        /\ PreOf(pre, steps, i).chunk_index >= n

\* How many of the symbols left a value that is not below range << bit_count
CountOver(steps) == Cardinality({i \in 1..Len(steps) : ValueOver(steps[i].st)})

\* How many of the symbols had their split shifted by a bit_count outside 0..63
CountBadShift(steps) ==
    Cardinality({i \in 1..Len(steps) : ~ShiftInRange(steps[i].mid.bit_count)})

\* The refill between from and mid executed value <<= 32 on a value of 2^32 or more
LossyShift(from, mid) ==
    /\ mid.bit_count = from.bit_count + 32
    /\ (from.value[3] # 0 \/ from.value[4] # 0)

\* How many of the symbols refilled a value of 2^32 or more
CountLossy(pre, steps) ==
    Cardinality({i \in 1..Len(steps) : LossyShift(PreOf(pre, steps, i), steps[i].mid)})

BitCountInside(st) == st.bit_count >= 0 - 8 /\ st.bit_count <= 31

\* How many of the symbols had a bit_count outside -8..=31 after the refill or
\* after the renormalization
CountOutside(steps) ==
    Cardinality({i \in 1..Len(steps) :
                    ~BitCountInside(steps[i].mid) \/ ~BitCountInside(steps[i].st)})

InitAD(data, cut, len) ==
    /\ chunks = PadChunks(data)
    /\ state = NewState
    /\ started = FALSE
    /\ aborted = FALSE
    /\ nreads = 0
    /\ lastPath = "none"
    /\ lastVal = FALSE
    /\ coldRef = [val |-> FALSE, st |-> NewState]
    /\ symRange = NoSymbols
    /\ overValue = 0
    /\ badShift = 0
    /\ lastOp = [name |-> "none", arg |-> 0]
    /\ lastSyms = [served |-> 0, tried |-> 0]
    /\ seqRef = [val |-> FALSE, st |-> NewState, n |-> 0]
    /\ payloadLen = len
    /\ lastNeed = 0
    /\ chunksT = PadChunks(SubSeq(data, 1, Len(data) - cut))
    /\ stateT = NewState
    /\ same = TRUE
    /\ readAfterErr = FALSE
    /\ overrun = FALSE
    /\ refills = [lossy |-> 0, outside |-> 0]

\* One decoder on the whole payload (the second decoder is a copy of it)
\* init is handed the chunks: the decoder sees the payload as padded
Init == WebPIdle /\ \E data \in Payloads : InitAD(data, 0, 4 * Len(PadChunks(data)))

\* The same decoder, the length of the payload before padding kept aside
InitPayload == WebPIdle /\ \E data \in Payloads : InitAD(data, 0, Len(data))

\* The second decoder on the payload truncated by at least one byte
InitTrunc == WebPIdle /\ \E data \in Payloads : \E cut \in 1..Len(data) : InitAD(data, cut, Len(data))

CanRead == nreads < MaxReads /\ ~aborted

\* The one element of a set of one
The(S) == CHOOSE x \in S : TRUE

\* n single-symbol public reads that returned r.val and left r.st
AsRef(r, n) == [val |-> r.val, st |-> r.st, n |-> n]

\* read_flag as one read_bool(128)
FlagRef(ch, st) == AsRef(read_bool(ch, st, 128), 1)

\* Flag f read after the flags of acc
FlagOnto(acc, f) == [st |-> f.st, bits |-> Append(acc.bits, f.val)]

\* n successive read_flag calls
RECURSIVE FlagsRef(_, _, _)
FlagsRef(ch, acc, n) ==
    IF n = 0 THEN acc
    ELSE The({ FlagsRef(ch, FlagOnto(acc, f), n - 1) : f \in {read_flag(ch, acc.st)} })

\* The sum of b_i * 2^(n-1-i) over the bits b_0..b_(n-1)
RECURSIVE MsbFirst(_)
MsbFirst(bits) ==
    IF bits = <<>> THEN 0
    ELSE BitVal(Head(bits)) * Pow2(Len(bits) - 1) + MsbFirst(Tail(bits))

LiteralOf(acc) == [val |-> MsbFirst(acc.bits), st |-> acc.st, n |-> Len(acc.bits)]

\* read_literal(n) as n successive read_flag calls, most significant bit first
LiteralRef(ch, st, n) == LiteralOf(FlagsRef(ch, [st |-> st, bits |-> <<>>], n))

SignedRef(magnitude, sign) ==
    [val |-> IF sign.val THEN 0 - magnitude.val ELSE magnitude.val,
     st |-> sign.st,
     n |-> magnitude.n + 2]

SignRef(ch, magnitude) ==
    The({ SignedRef(magnitude, sign) : sign \in {read_flag(ch, magnitude.st)} })

MagnitudeRef(ch, flag, n) ==
    IF ~flag.val THEN [val |-> 0, st |-> flag.st, n |-> 1]
    ELSE The({ SignRef(ch, magnitude) : magnitude \in {LiteralRef(ch, flag.st, n)} })

\* read_optional_signed_value(n) as read_flag, then, if it is set, n read_flag
\* calls for the magnitude and one for the sign
OptionalSignedRef(ch, st, n) ==
    The({ MagnitudeRef(ch, flag, n) : flag \in {read_flag(ch, st)} })

RECURSIVE WalkRef(_, _, _, _, _)

WalkChild(ch, b, tree, child, n) ==
    IF child < Len(tree) THEN WalkRef(ch, b.st, tree, child, n)
    ELSE [val |-> value_from_branch(child), st |-> b.st, n |-> n]

WalkAt(ch, b, tree, index, n) ==
    WalkChild(ch, b, tree,
              IF b.val THEN tree[index + 1].right ELSE tree[index + 1].left, n)

\* The walk from tree[index] with one read_bool(node.prob) at each node
WalkRef(ch, st, tree, index, n) ==
    The({ WalkAt(ch, b, tree, index, n + 1) : b \in {read_bool(ch, st, tree[index + 1].prob)} })

\* read_with_tree as a walk from the root
TreeRef(ch, st, tree) == WalkRef(ch, st, tree, 0, 0)

\* read_bool stands for itself
Itself == [val |-> lastVal', st |-> state', n |-> 1]

\* The last read is noted with the reads it stands for
Noted(name, arg, ref) ==
    /\ lastOp' = [name |-> name, arg |-> arg]
    /\ seqRef' = ref

\* The effect of one public read r, issued on both decoders (rT on the second
\* one); c is the slow path alone, from the same state
Apply(r, rT, c) ==
    LET t == IF chunksT = chunks /\ stateT = state THEN r ELSE rT
    IN  /\ state' = r.st
        /\ stateT' = t.st
        /\ started' = (started \/ Len(r.steps) > 0)
        /\ aborted' = (~r.ok \/ ~t.ok)
        /\ nreads' = nreads + 1
        /\ lastPath' = r.path
        /\ lastVal' = r.val
        /\ coldRef' = [val |-> c.val, st |-> c.st]
        /\ symRange' = SymRange(r)
        /\ overValue' = CountOver(r.steps) + CountOver(r.tried)
        /\ badShift' = CountBadShift(r.steps) + CountBadShift(r.tried)
        /\ lastSyms' = [served |-> Len(r.steps), tried |-> Len(r.tried)]
        /\ lastNeed' = BytesNeeded(r.tried)
        /\ same' = (same /\ r.val = t.val)
        /\ readAfterErr' = (readAfterErr \/ check(chunks, state) = "BitStreamError")
        /\ overrun' = (overrun \/ Overran(Len(chunks), state, r.steps))
        /\ refills' = [lossy |-> CountLossy(state, r.steps) + CountLossy(state, r.tried),
                       outside |-> CountOutside(r.steps) + CountOutside(r.tried)]
        /\ UNCHANGED <<chunks, chunksT, payloadLen, webpVars>>

ReadBool ==
    /\ CanRead
    /\ \E p \in Probs :
          /\ Apply(read_bool(chunks, state, p), read_bool(chunksT, stateT, p),
                   OneStep(cold_read_bool(chunks, state, p)))
          /\ Noted("read_bool", p, Itself)

ReadFlag ==
    /\ CanRead
    /\ Apply(read_flag(chunks, state), read_flag(chunksT, stateT),
             OneStep(cold_read_flag(chunks, state)))
    /\ Noted("read_flag", 0, FlagRef(chunks, state))

\* Sign bits are never the first symbol in a bit stream: fast_read_sign
\* asserts 128 <= range <= 254 on entry; its slow path is cold_read_flag
ReadSign ==
    /\ CanRead
    /\ state.range <= 254 /\ stateT.range <= 254
    /\ Apply(read_sign(chunks, state), read_sign(chunksT, stateT),
             OneStep(cold_read_flag(chunks, state)))
    /\ Noted("read_sign", 0, AsRef(read_flag(chunks, state), 1))

ReadLiteral ==
    /\ CanRead
    /\ \E n \in Widths :
          /\ Apply(read_literal(chunks, state, n), read_literal(chunksT, stateT, n),
                   cold_read_literal(chunks, state, n))
          /\ Noted("read_literal", n, LiteralRef(chunks, state, n))

ReadOptionalSignedValue ==
    /\ CanRead
    /\ \E n \in Widths :
          /\ Apply(read_optional_signed_value(chunks, state, n),
                   read_optional_signed_value(chunksT, stateT, n),
                   cold_read_optional_signed_value(chunks, state, n))
          /\ Noted("read_optional_signed_value", n, OptionalSignedRef(chunks, state, n))

ReadWithTree ==
    /\ CanRead
    /\ \E tree \in Trees :
          /\ Apply(read_with_tree(chunks, state, tree),
                   read_with_tree(chunksT, stateT, tree),
                   cold_read_with_tree(chunks, state, tree, 0))
          /\ Noted("read_with_tree", tree, TreeRef(chunks, state, tree))

Next ==
    \/ ReadBool
    \/ ReadFlag
    \/ ReadSign
    \/ ReadLiteral
    \/ ReadOptionalSignedValue
    \/ ReadWithTree

Spec == Init /\ [][Next]_vars

SpecTrunc == InitTrunc /\ [][Next]_vars

SpecPayload == InitPayload /\ [][Next]_vars

\* Payloads of three chunks
ChainPayloads ==
    { <<b, 104, 0, 255, 104, 0, 0, 0, 104>> : b \in ByteVals }
        \cup { <<0, 0, 0, 0, 104, 0, 0, 0, 104>> }

\* Trees that are one chain of nodes: every node of the first one has a leaf
\* on the left and the next node on the right, the second one is its mirror
ChainTrees ==
    { << Node(255, 128, 1, 0), Node(255, 129, 2, 1),
         Node(255, 130, 3, 2), Node(255, 131, 132, 3) >>,
      << Node(1, 1, 128, 0), Node(1, 2, 129, 1),
         Node(1, 3, 130, 2), Node(1, 131, 132, 3) >> }

\* One decoder on a payload of any length up to three chunks
InitChain ==
    WebPIdle /\ \E data \in Payloads \cup ChainPayloads :
                    InitAD(data, 0, 4 * Len(PadChunks(data)))

\* read_with_tree on a chain: up to four symbols in one read
ReadWithChain ==
    /\ CanRead
    /\ \E tree \in ChainTrees :
          /\ Apply(read_with_tree(chunks, state, tree),
                   read_with_tree(chunksT, stateT, tree),
                   cold_read_with_tree(chunks, state, tree, 0))
          /\ Noted("read_with_tree", tree, TreeRef(chunks, state, tree))

NextChain ==
    \/ ReadBool
    \/ ReadFlag
    \/ ReadSign
    \/ ReadLiteral
    \/ ReadOptionalSignedValue
    \/ ReadWithTree
    \/ ReadWithChain

SpecChain == InitChain /\ [][NextChain]_vars


\* ------------------------------------------ the facade as a state machine

LE16(n) == << n % 256, n \div 256 >>

\* The files handed to WebPDecoder::new: a RIFF header, one chunk header, a
\* VP8 frame tag and the bytes that follow, each field drawn from a few values
Signatures == { <<RIFF, WEBP>>, << <<82, 73, 70, 88>>, WEBP >>, << RIFF, <<87, 69, 66, 77>> >> }
FileSizes == { <<60, 0, 0, 0>>, <<255, 255, 255, 255>> }
FourCCs == { VP8, VP8L, VP8X, <<108, 100, 0, 0>> }
FrameTags == { <<208, 1, 0>>, <<209, 1, 0>> }
Magics == { Vp8Magic, <<157, 1, 43>> }
WidthFields == { <<0, 0>>, <<2, 0>>, <<3, 192>> }
HeightFields == { <<0, 0>>, <<3, 0>>, <<255, 255>> }
Bodies == { <<>>, <<2, 0>>, <<255>> }

\* chunk_size fields for a chunk of n bytes: exact, one byte too many, none, the largest
ChunkSizes(n) == { LE16(n) \o <<0, 0>>, LE16(n + 1) \o <<0, 0>>, <<0, 0, 0, 0>>,
                   <<255, 255, 255, 255>> }

Files ==
    { sig[1] \o fsize \o sig[2] \o fcc \o csize \o tag \o magic \o w \o h \o body :
        sig \in Signatures, fsize \in FileSizes, fcc \in FourCCs,
        csize \in UNION {ChunkSizes(10 + Len(b)) : b \in Bodies},
        tag \in FrameTags, magic \in Magics, w \in WidthFields, h \in HeightFields,
        body \in Bodies }

\* Lengths a file is cut to: each offset the header parser reads at
CutLengths == {0, 4, 8, 12, 16, 20, 21, 26, 28, 29}

Inputs == Files \cup { SubSeq(f, 1, n) : f \in Files, n \in CutLengths }

InitWebP ==
    /\ InitAD(<<>>, 0, 0)
    /\ build \in Builds
    /\ input \in Inputs
    /\ created = NotCalled
    /\ dec = NoDecoder
    /\ afterNew = NoCall
    /\ calls = 0
    /\ last = NoCall
    /\ first = NoCall
    /\ reported = NoCall

\* let decoder = WebPDecoder::new(input)
New ==
    /\ created = NotCalled
    /\ created' = new(input, build)
    /\ dec' = IF created'.kind = "Ok" THEN created'.v ELSE NoDecoder
    /\ afterNew' = IF created'.kind = "Ok"
                   THEN [called |-> TRUE,
                         data |-> created'.v.data,
                         dimensions |-> dimensions(created'.v),
                         output_buffer_size |-> output_buffer_size(created'.v, build)]
                   ELSE NoCall
    /\ UNCHANGED <<build, input, calls, last, first, reported, adVars>>

\* Lengths of the buffers handed to read_image
BufLens(size) == {0, size - 1, size, size + 1}

\* What read_image leaves when it returns r on a buffer of len bytes
Returned(len, r) ==
    /\ dec' = r.self
    /\ last' = [called |-> TRUE, n |-> calls + 1, len |-> len, result |-> r.result,
                buf |-> r.buf, decoded |-> r.decoded]

\* decoder.read_image(&mut buf) on a buffer of len bytes
ReadImage ==
    /\ created.kind = "Ok"
    /\ calls < MaxCalls
    /\ \E len \in BufLens(ToInt(dec.width) * ToInt(dec.height) * 3) :
          /\ Returned(len, read_image(dec, Buffer(len, Untouched), build))
          /\ first' = IF ~first.called /\ Some(usize(len)) = output_buffer_size(dec, build)
                      THEN last' ELSE first
          /\ calls' = calls + 1
    /\ UNCHANGED <<build, input, created, afterNew, reported, adVars>>

NextWebP == New \/ ReadImage

SpecWebP == InitWebP /\ [][NextWebP]_vars

\* ------------------------------------- output_buffer_size on any decoder

\* Words a decoder can hold as width and height: small ones, the sides of
\* u32::MAX / 3 and u64::MAX / 3, and the powers of two around the word sizes
Words ==
    { usize(0), usize(1), usize(3), usize(16383),
      usize(21845), usize(21846), usize(65536), usize(65537),
      <<255, 255, 255, 255, 0, 0, 0, 0>>,
      <<0, 0, 0, 0, 1, 0, 0, 0>>,
      <<85, 85, 85, 85, 85, 85, 85, 85>>,
      <<86, 85, 85, 85, 85, 85, 85, 85>>,
      <<0, 0, 0, 0, 0, 0, 0, 128>>,
      <<255, 255, 255, 255, 255, 255, 255, 255>> }

\* The words of a build: on 32 bits the upper four bytes are 0
WordsOf(b) == { w \in Words : b.bits = 64 \/ SubSeq(w, 5, 8) = <<0, 0, 0, 0>> }

\* A decoder with any two words as width and height
InitSize ==
    /\ InitAD(<<>>, 0, 0)
    /\ build \in Builds
    /\ input = <<>>
    /\ created = NotCalled
    /\ dec \in { [width |-> w, height |-> h, data |-> <<>>] :
                   w \in WordsOf(build), h \in WordsOf(build) }
    /\ afterNew = NoCall
    /\ calls = 0
    /\ last = NoCall
    /\ first = NoCall
    /\ reported = NoCall

\* decoder.output_buffer_size()
OutputBufferSize ==
    /\ ~reported.called
    /\ reported' = [called |-> TRUE, size |-> output_buffer_size(dec, build)]
    /\ UNCHANGED <<build, input, created, dec, afterNew, calls, last, first, adVars>>

NextSize == OutputBufferSize

SpecSize == InitSize /\ [][NextSize]_vars

\* ---------------------------------------------- claims: boolean decoder

InRange(st) == st.range >= 128 /\ st.range <= 254

\* C1: every public read (read_bool, read_flag, read_literal,
\* read_optional_signed_value, read_with_tree; read_sign too, under its
\* precondition) returned the value and left the state that the slow path
\* alone returns and leaves from the same state; in particular a fast
\* attempt that ran past the end of the chunks leaves nothing behind.
C1_FastSlowEquivalent ==
    lastPath # "none" => (lastVal = coldRef.val /\ state = coldRef.st)

\* A read that ran past the end of a payload of at least one chunk was served
\* by the slow path, the fast attempt being discarded
C1_Witness ==
    /\ lastPath = "cold"
    /\ Len(chunks) >= 1
    /\ state.chunk_index = Len(chunks) + 1

\* C2: chunk_index never decreases, a check() that has failed keeps failing
\* after every later read, and no read aborts, also after the end of the
\* payload.
C2_StickyEndOfStream ==
    [][ /\ state'.chunk_index >= state.chunk_index
        /\ (check(chunks, state) = "BitStreamError"
               => check(chunks', state') = "BitStreamError")
        /\ ~aborted' ]_vars

\* A read was issued, and returned, when check() had already failed
C2_Witness ==
    /\ readAfterErr
    /\ ~aborted
    /\ check(chunks, state) = "BitStreamError"

\* C3: on a truncated payload the same reads return the values they return on
\* the whole payload, or check() reports BitStreamError.
C3_NoSilentCorruption == same \/ check(chunksT, stateT) = "BitStreamError"

\* The least shift that brings r to at least 128
RECURSIVE LeastShift(_)
LeastShift(r) == IF r >= 128 THEN 0 ELSE 1 + LeastShift(2 * r)

\* C4: range is 255 only before the first symbol; after every symbol read by
\* any primitive, on the fast attempt and on the path that served the read,
\* 128 <= range <= 254; and the renormalization shift is the least shift
\* that brings a range in 1..254 to at least 128 (a fact of numbers, evaluated
\* once, before the first read).
C4_RangePostCondition ==
    /\ state.range = 255 => ~started
    /\ started => InRange(state)
    /\ symRange.n > 0 => (symRange.lo >= 128 /\ symRange.hi <= 254)
    /\ lastOp.name = "none" => \A r \in 1..254 : RenormShift(r) = LeastShift(r)

\* A symbol was read after the end of the payload had been passed
C4_Witness ==
    /\ started
    /\ readAfterErr
    /\ lastPath = "cold"
    /\ symRange.n > 0
    /\ InRange(state)

\* The first byte of the payload
FirstByte == IF Len(chunks) = 0 THEN 0 ELSE chunks[1][1]

\* C11 as stated: for every payload, the first byte 0xFF included, after every
\* renormalization that leaves bit_count >= 0, value < range << bit_count.
C11_ValueBound == ~ValueOver(state) /\ overValue = 0

\* C11 amended: for every payload whose first byte is not 0xFF, after every
\* renormalization that leaves bit_count >= 0 (every symbol of every read, on
\* the fast attempt and on the path that served it, also past the end),
\* value < range << bit_count.
C11_ValueBoundUnlessFF == FirstByte # 255 => (~ValueOver(state) /\ overValue = 0)

\* A symbol was read from a payload that starts with a byte other than 0 and
\* 0xFF and left a value that is not zero, with bit_count >= 0
C11_Witness ==
    /\ FirstByte \notin {0, 255}
    /\ symRange.n > 0
    /\ state.bit_count >= 0
    /\ state.value # U64Zero

\* C12: at the point where the split is shifted by bit_count, on the fast
\* attempt and on the path that served the read, before and after the end of
\* the payload, 0 <= bit_count <= 63; between reads bit_count is at most 63
\* and a negative bit_count is at least -8, waiting for the refill that opens
\* the next read.
C12_BitCountDiscipline ==
    /\ badShift = 0
    /\ state.bit_count >= 0 - 8
    /\ state.bit_count <= 63

\* A read left a negative bit_count and the next read, served past the end of
\* the payload, shifted its splits by a bit_count in 0..63
C12_Witness ==
    /\ readAfterErr
    /\ lastPath = "cold"
    /\ symRange.n > 0
    /\ state.bit_count < 0
\* The value and the state the last read returned and left are those of the
\* single-symbol reads it stands for
AsSeqRef == lastVal = seqRef.val /\ state = seqRef.st

\* C13: from every reachable state (128 <= range <= 255) read_flag returns the
\* bit and leaves the state that read_bool(128) returns and leaves; the fast
\* split range - range / 2 equals 1 + (((range - 1) * 128) >> 8), and on the
\* ranges 64..128 a flag split leaves, the shift of 'range == 0x80 ? 0 : 1'
\* equals leading_zeros(range).saturating_sub(24).  The two equalities hold
\* of numbers, not of states: they are evaluated once, before the first read.
C13_FlagIsBool128 ==
    /\ lastOp.name = "read_flag" => AsSeqRef
    /\ lastOp.name = "none" =>
           /\ \A r \in 128..255 : r - (r \div 2) = 1 + (((r - 1) * 128) \div 256)
           /\ \A r \in 64..128 : FlagShift(r) = RenormShift(r)

\* A read_flag served by the fast path returned 1
C13_Witness ==
    /\ lastOp.name = "read_flag"
    /\ lastPath = "fast"
    /\ lastVal = TRUE

\* C18: read_optional_signed_value(n) reads one flag; if it is 0 the result is
\* 0, one symbol is consumed and the state is the state after that read_flag;
\* if it is 1, n + 2 flags are consumed, the flag, the magnitude most
\* significant bit first and the sign, and the result is -magnitude when the
\* sign is 1 and +magnitude when it is 0; the fast attempt, too, consumes one
\* symbol or n + 2.
C18_OptionalSignedValue ==
    lastOp.name = "read_optional_signed_value" =>
        /\ AsSeqRef
        /\ lastSyms.served = seqRef.n
        /\ lastSyms.served \in {1, lastOp.arg + 2}
        /\ lastSyms.tried \in {1, lastOp.arg + 2}
        /\ lastSyms.served = 1 => lastVal = 0

\* A read_optional_signed_value(3) consumed five flags and returned a negative value
C18_Witness ==
    /\ lastOp.name = "read_optional_signed_value"
    /\ lastOp.arg = 3
    /\ lastSyms.served = 5
    /\ lastVal < 0

\* C19: read_literal(n), 0 <= n <= 8, consumes n flags and returns the sum of
\* b_i * 2^(n-1-i) over the flags in read order, a value in 0..2^n - 1 that
\* lost no bit to the u8; the state is the state after n read_flag calls.
C19_LiteralMsbFirst ==
    lastOp.name = "read_literal" =>
        /\ AsSeqRef
        /\ lastSyms.served = lastOp.arg
        /\ lastVal >= 0
        /\ lastVal <= Pow2(lastOp.arg) - 1

\* A read_literal(8) returned a value with its top bit set and a lower bit clear
C19_Witness ==
    /\ lastOp.name = "read_literal"
    /\ lastOp.arg = 8
    /\ lastVal >= 128
    /\ lastVal < 255

\* C20: read_with_tree returns the value and leaves the state of the walk from
\* the root that reads one read_bool(node.prob) at each node, follows right on
\* 1 and left on 0 and returns value_from_branch of the first child that is
\* not a node; on trees whose node children lie after their parent the walk,
\* fast attempt included, reads at most tree.len() symbols, also past the end
\* of the payload.
C20_TreeWalk ==
    lastOp.name = "read_with_tree" =>
        /\ AsSeqRef
        /\ lastSyms.served = seqRef.n
        /\ lastSyms.served >= 1 /\ lastSyms.served <= Len(lastOp.arg)
        /\ lastSyms.tried >= 1 /\ lastSyms.tried <= Len(lastOp.arg)

\* A walk of two nodes was served past the end of the payload
C20_Witness ==
    /\ lastOp.name = "read_with_tree"
    /\ lastSyms.served = 2
    /\ readAfterErr
    /\ lastPath = "cold"
\* C14: as long as the reads need at most one byte beyond the end of the
\* payload, check() succeeds: the byte is supplied as a zero pad byte, and only
\* a read that needs more makes check() return BitStreamError.
C14_OneByteSlack ==
    (lastOp.name # "none" /\ ~readAfterErr /\ lastNeed <= payloadLen + 1)
        => check(chunks, state) = "Ok"

\* ------------------------------------------------ claims: container facade

NewReturned == created.kind # "NotCalled"

\* bytes 0..4 == "RIFF" and 8..12 == "WEBP"
ValidSignature(data) ==
    Len(data) >= 12 /\ Slice(data, 0, 4) = RIFF /\ Slice(data, 8, 12) = WEBP

\* C5: WebPDecoder::new on a buffer of fewer than 30 bytes returns an error
\* value; it does not abort.
C5_ShortBufferIsError == (NewReturned /\ Len(input) < 30) => created.kind = "Err"

\* C6: on a buffer that holds the whole header and has a valid signature,
\* whatever its chunk_size field, WebPDecoder::new ends with Ok or an error
\* value; it does not panic.
C6_TruncatedChunkIsError ==
    (NewReturned /\ Len(input) >= 30 /\ ValidSignature(input))
        => created.kind \in {"Ok", "Err"}

\* C7: on a buffer with a valid signature, the FourCC at offset 12 decides:
\* "VP8L" gives LosslessUnsupported, "VP8X" gives ExtendedUnsupported and any
\* FourCC other than "VP8 ", "VP8L", "VP8X" gives ChunkHeaderInvalid with
\* those four bytes.
C7_FourCCDispatch ==
    (NewReturned /\ ValidSignature(input) /\ Len(input) >= 16) =>
        LET fcc == Slice(input, 12, 16)
        IN  /\ fcc = VP8L => created = Err("LosslessUnsupported", <<>>)
            /\ fcc = VP8X => created = Err("ExtendedUnsupported", <<>>)
            /\ fcc \notin {VP8, VP8L, VP8X} => created = Err("ChunkHeaderInvalid", fcc)

\* C8: read_image creates the frame decoder and decodes iff the buffer is
\* W*H*3 bytes long; with any other length it returns ImageTooLarge and the
\* payload is not read.
C8_DecodesIffRightLength ==
    last.called =>
        LET size == ToInt(afterNew.dimensions[1]) * ToInt(afterNew.dimensions[2]) * 3
        IN  /\ last.decoded <=> (last.len = size)
            /\ ~last.decoded => last.result = Err("ImageTooLarge", <<>>)
            /\ ~afterNew.output_buffer_size.some => ~last.decoded

\* A 3x3 image was decoded into 27 bytes, then refused a buffer of another length
C8_Witness ==
    /\ afterNew.called /\ afterNew.dimensions = <<usize(3), usize(3)>>
    /\ first.called /\ first.n = 1 /\ first.len = 27 /\ first.result.kind = "Ok"
    /\ last.called /\ last.n = 2 /\ last.len # 27 /\ ~last.decoded

C10_MetadataUnchanged ==
    afterNew.called =>
        /\ created.kind = "Ok"
        /\ dec.data = afterNew.data
        /\ dimensions(dec) = afterNew.dimensions
        /\ output_buffer_size(dec, build) = afterNew.output_buffer_size

\* A call refused with ImageTooLarge was followed by a call that failed decoding
C10_Witness ==
    /\ afterNew.called
    /\ calls = 2
    /\ last.called /\ last.decoded /\ last.result.kind = "Err"
    /\ ~first.called \/ first.n = 2

\* LE16(bytes a..a+2) & 0x3FFF
Field14(data, a) == (data[a + 1] + 256 * data[a + 2]) % 16384

\* Nothing failed
Pass == [kind |-> "Pass"]

\* The first failing check of a buffer of at least 30 bytes, in the order
\* signature, FourCC, frame tag, start code, image size
FirstFailing(data) ==
    IF ~ValidSignature(data) THEN Err("InvalidSignature", <<>>)
    ELSE IF Slice(data, 12, 16) = VP8L THEN Err("LosslessUnsupported", <<>>)
    ELSE IF Slice(data, 12, 16) = VP8X THEN Err("ExtendedUnsupported", <<>>)
    ELSE IF Slice(data, 12, 16) # VP8 THEN Err("ChunkHeaderInvalid", Slice(data, 12, 16))
    ELSE IF data[21] % 2 # 0 THEN Err("NonKeyframe", <<>>)
    ELSE IF Slice(data, 23, 26) # Vp8Magic THEN Err("Vp8MagicInvalid", Slice(data, 23, 26))
    ELSE IF Field14(data, 26) = 0 \/ Field14(data, 28) = 0 THEN Err("InvalidImageSize", <<>>)
    ELSE Pass

\* The chunk lies inside the buffer: 20 + chunk_size <= data.len()
ChunkInside(data) ==
    /\ data[19] = 0 /\ data[20] = 0
    /\ 20 + data[17] + 256 * data[18] <= Len(data)

\* 20 + chunk_size overflows the word of the build, which has overflow checks
SizeOverflows(data) ==
    /\ build.overflow_checks
    /\ RangeEnd(u32_from_le_bytes(Slice(data, 16, 20)), build).overflow

\* What new returned is what the first failing check says, and new succeeded
\* iff no check failed and the chunk lies inside the buffer
InOrder ==
    /\ FirstFailing(input).kind = "Err" => created = FirstFailing(input)
    /\ created.kind = "Ok" <=> (FirstFailing(input) = Pass /\ ChunkInside(input))

\* C15: on a buffer of at least 30 bytes the first failing check in the order
\* signature (InvalidSignature), FourCC dispatch, frame tag (NonKeyframe),
\* start code (Vp8MagicInvalid with bytes 23..26), image size
\* (InvalidImageSize) decides the error of WebPDecoder::new, and new succeeds
\* iff all pass and the chunk lies inside the buffer.
C15_ValidationOrder == (NewReturned /\ Len(input) >= 30) => InOrder

\* The same on the inputs whose chunk_size does not overflow 20 + chunk_size
C15_OrderUnlessOverflow ==
    (NewReturned /\ Len(input) >= 30 /\ ~SizeOverflows(input)) => InOrder

\* C16: for every decoder that WebPDecoder::new built, dimensions() returns
\* (LE16(input bytes 26..28) & 0x3FFF, LE16(input bytes 28..30) & 0x3FFF): the
\* two top bits of each field are ignored and W and H are in 1..16383.
C16_Dimensions ==
    created.kind = "Ok" =>
        /\ dimensions(dec) = <<usize(Field14(input, 26)), usize(Field14(input, 28))>>
        /\ ToInt(dimensions(dec)[1]) >= 1 /\ ToInt(dimensions(dec)[1]) <= 16383
        /\ ToInt(dimensions(dec)[2]) >= 1 /\ ToInt(dimensions(dec)[2]) <= 16383

\* A decoder was built from fields with reserved bits set: 0xC003 gave width 3,
\* 0xFFFF gave height 16383
C16_Witness ==
    /\ created.kind = "Ok"
    /\ Slice(input, 26, 30) = <<3, 192, 255, 255>>
    /\ dimensions(dec) = <<usize(3), usize(16383)>>

\* W * H * 3 in full: twenty-four bytes
Triple(self) == Product(Product(self.width, self.height), usize(3))

\* W and H are in 1..16383, as in every decoder that new builds
Buildable(self) ==
    /\ SubSeq(self.width, 3, 8) = <<0, 0, 0, 0, 0, 0>> /\ self.width[2] < 64
    /\ SubSeq(self.height, 3, 8) = <<0, 0, 0, 0, 0, 0>> /\ self.height[2] < 64
    /\ self.width # usize(0) /\ self.height # usize(0)

\* C17: output_buffer_size() returns None iff W * H * 3 overflows the native
\* word and Some(W * H * 3) otherwise; it is None already when W * H
\* overflows; and for W and H in 1..16383 it is Some(W * H * 3) on 32-bit and
\* on 64-bit words.
C17_OutputBufferSize ==
    reported.called =>
        /\ reported.size.some <=> FitsWord(Triple(dec), build)
        /\ reported.size.some => reported.size.v = SubSeq(Triple(dec), 1, 8)
        /\ ~FitsWord(Product(dec.width, dec.height), build) => reported.size = None
        /\ Buildable(dec) =>
               reported.size = Some(usize(ToInt(dec.width) * ToInt(dec.height) * 3))

\* On a 32-bit build 65537 * 21846 fits the word and its triple does not: None
C17_Witness ==
    /\ reported.called
    /\ build.bits = 32
    /\ dec.width = usize(65537) /\ dec.height = usize(21846)
    /\ reported.size = None

\* The little-endian u32 at offset 16, for a value below 2^31
ChunkSize(data) ==
    data[17] + 256 * data[18] + 65536 * data[19] + 16777216 * (data[20] % 128)

\* C21: a decoder that new built holds as payload the input bytes
\* 20 .. 20 + chunk_size, chunk_size being the little-endian u32 at offset 16:
\* chunk_size bytes from the frame tag on, whatever the file_size field at
\* offset 4 and the bytes after the chunk are.
C21_StoredPayload ==
    created.kind = "Ok" =>
        /\ ChunkInside(input)
        /\ Len(dec.data) = ChunkSize(input)
        /\ \A i \in 1..Len(dec.data) : dec.data[i] = input[20 + i]

\* A decoder was built from a file whose file_size field is 0xFFFFFFFF and
\* whose chunk of ten bytes is followed by two more bytes
C21_Witness ==
    /\ created.kind = "Ok"
    /\ Slice(input, 4, 8) = <<255, 255, 255, 255>>
    /\ ChunkSize(input) = 10
    /\ Len(input) = 32
    /\ Len(dec.data) = 10

\* check(value) returns BitStreamError iff a served symbol refilled when no
\* chunk remained, and Ok(value) otherwise
CheckTellsOverrun ==
    check_value(chunks, state, lastVal) =
        IF overrun THEN Err("BitStreamError", <<>>) ELSE Ok(lastVal)

\* C22 as stated: check() returns BitStreamError iff an earlier read attempted
\* a refill when no chunk remained and Ok(value) otherwise, so it succeeds
\* before any read; and on a decoder with no chunks it fails after any read.
C22_CheckAfterAnyRead ==
    /\ CheckTellsOverrun
    /\ (Len(chunks) = 0 /\ lastOp.name # "none") => check(chunks, state) = "BitStreamError"

\* C22, amended: the same, a decoder with no chunks failing after any read of
\* at least one symbol.
C22_CheckAfterSymbol ==
    /\ CheckTellsOverrun
    /\ (Len(chunks) = 0 /\ started) => check(chunks, state) = "BitStreamError"

\* On a payload of one chunk or more a read ran out of chunks on the slow path
\* and check() fails
C22_Witness ==
    /\ Len(chunks) >= 1
    /\ overrun
    /\ lastPath = "cold"
    /\ check(chunks, state) = "BitStreamError"

\* Before the first symbol (range 255) a sign that decodes as 0 is left with
\* range 256 by the shift of one, where a flag is left with range 128
SignFirst(s, f) ==
    /\ ~f.bit => (~s.bit /\ s.st.range = 256 /\ f.st.range = 128)
    /\ f.bit => s.st = f.st

\* C23: from every state reached after a symbol (128 <= range <= 254)
\* read_sign returns the bit and leaves the state that read_flag returns and
\* leaves; both halves of such a range lie in 64..127, where the flag's shift
\* is the sign's shift of one; only before the first symbol (range 255, bit 0,
\* split 128) the shift of one leaves range 256.  The facts about numbers and
\* about the first symbol are evaluated before the first read.
C23_SignIsFlag ==
    /\ lastOp.name = "read_sign" => AsSeqRef
    /\ lastOp.name = "none" =>
           /\ \A r \in 128..254 :
                 /\ r - (r \div 2) >= 64 /\ r - (r \div 2) <= 127
                 /\ r \div 2 >= 64 /\ r \div 2 <= 127
           /\ \A r \in 64..127 : FlagShift(r) = 1
           /\ SignFirst(fast_read_sign(chunks, state), fast_read_flag(chunks, state))

\* A read_sign after the first symbol was served by the fast path and returned 1
C23_Witness ==
    /\ lastOp.name = "read_sign"
    /\ lastPath = "fast"
    /\ lastVal = TRUE
    /\ nreads >= 2

\* ------------------------------------------------------------------- C24

FirstByteFF == chunks # <<>> /\ chunks[1][1] = 255

\* No symbol of the last read saw a bit_count outside -8..=31, and bit_count
\* is within -8..=31 between reads
BitCountWithin == refills.outside = 0 /\ BitCountInside(state)

\* C24 as stated: for every payload and every sequence of reads, no refill
\* of the last read, on the fast attempt or on the path that served it,
\* executed value <<= 32 on a value of 2^32 or more, and bit_count is within
\* -8..=31 in every state.
C24_NoBitLost == refills.lossy = 0 /\ BitCountWithin

\* C24: for every payload whose first byte is not 0xFF and every sequence of
\* reads, no refill of the last read, on the fast attempt or on the path that
\* served it, executed value <<= 32 on a value of 2^32 or more; for every
\* payload, bit_count is within -8..=31 in every state.
C24_NoBitLostBelowFF == (~FirstByteFF => refills.lossy = 0) /\ BitCountWithin

\* A payload that does not start with 0xFF, whose second chunk was shifted in
\* under the bits still held: the bits of the first chunk are all kept
C24_Witness ==
    /\ ~FirstByteFF
    /\ lastPath = "fast"
    /\ state.chunk_index = 2
    /\ (state.value[3] # 0 \/ state.value[4] # 0)
    /\ C24_NoBitLost

\* ------------------------------------------------------------------- C25

\* C25: a read_image call that returns an error, ImageTooLarge or an error of
\* decode_frame, leaves the caller's buffer as it was handed in; a call that
\* returns Ok was handed a buffer of W*H*3 bytes, decoded the whole frame and
\* left in the buffer what fill_rgb writes from that frame.
C25_AllOrNothing ==
    last.called =>
        /\ last.result.kind = "Err" => last.buf = Buffer(last.len, Untouched)
        /\ last.result.kind = "Ok" =>
               /\ last.decoded
               /\ last.len = ToInt(dec.width) * ToInt(dec.height) * 3
               /\ decode_frame(dec.data).kind = "Ok"
               /\ last.buf = fill_rgb(decode_frame(dec.data), Buffer(last.len, Untouched))
               /\ last.buf.content # Untouched

\* The frame decoder was run on a buffer of the right length and failed
C25_Witness ==
    /\ last.called /\ last.decoded
    /\ last.len = ToInt(dec.width) * ToInt(dec.height) * 3
    /\ last.result.kind = "Err"
    /\ last.buf.content = Untouched

====
